---- MODULE Spec2Model ----
(***************************************************************************)
(* Process-lifecycle model of min-image/runtimes/python/server_combined.py *)
(* (OpenLambda guest runtime): main, the docker-mode cache loop and        *)
(* web_server_docker, and the sock-mode fork server with its double fork   *)
(* in start_sock_container, and the request handler handle_request.       *)
(*                                                                         *)
(* Every OS process is one entry of `procs`.  A fork copies the forking    *)
(* process's record into the first unused slot; the slot number is the     *)
(* pid.  `log` is the sequence of steps the process itself has executed    *)
(* since it was forked.  `stack` lists, outermost first, the caller of     *)
(* every active start_sock_container frame ("main" for line 334, "fs" for  *)
(* line 240): it decides where an exception is caught and which exit code  *)
(* the process ends with.                                                  *)
(*                                                                         *)
(* os.fork, sendall and the opening of the bootstrap file are taken to     *)
(* succeed; the failures modelled are the ones of recv_fds, fchdir,        *)
(* chroot, the cgroup write, unshare, bind, enable_seccomp, `import f`     *)
(* and the bootstrap script.                                               *)
(***************************************************************************)
EXTENDS Integers, Sequences, FiniteSets, TLC

\* ---------------------------------------------------------------- bounds
MaxProcs == 6
MaxReqs == 2
MaxMods == 2
\* forks of the cache loop explored
MaxForks == 1

Procs == 1..MaxProcs
Reqs == 1..MaxReqs

\* module names a CacheRequest may carry; importing "missing_b" raises
ModNames == {"good_a", "missing_b"}
Signals == {"cache", "go"}

VARIABLES args, procs, reqs, disk, http

vars == <<args, procs, reqs, disk, http>>

\* ------------------------------------------------------------- helpers
Range(s) == {s[i] : i \in 1..Len(s)}

Front(s) == SubSeq(s, 1, Len(s) - 1)

Last(s) == s[Len(s)]

SeqsUpTo(S, n) == UNION {[1..k -> S] : k \in 0..n}

\* struct.pack("I", pid): a 4-byte unsigned integer, v mod 2^32 written as
\* two 16-bit halves
Pack(v) == (v % 65536) + 65536 * ((v \div 65536) % 65536)

\* the record of a slot no process occupies yet
Unborn ==
  [pc |-> "unborn", role |-> "none", parent |-> 0, exit |-> -1,
   stack |-> <<>>, log |-> <<>>, fds |-> {}, fds0 |-> {}, root |-> 0,
   r |-> -1, signal |-> "cache", ret_val |-> -1, mods |-> <<>>, count |-> 0,
   imported |-> {}, initialized |-> "undefined",
   pid |-> -1, client |-> 0, req |-> 0, file_sock |-> <<"none", 0>>]

Free == {p \in Procs : procs[p].pc = "unborn"}

\* the pid the next fork returns: the first unused slot
NewPid == CHOOSE p \in Free : \A q \in Free : p <= q

\* a process ends: the kernel closes every descriptor it held
Exit(rec, code, events) ==
  [rec EXCEPT !.pc = "exited", !.exit = code, !.fds = {},
              !.log = rec.log \o events]

\* An exception raised while the bootstrap script runs (exec at line 279,
\* which includes the whole of fork_server) is caught at line 280; then
\* start_sock_container returns, to main (which returns: exit code 0) or to
\* line 241 (os._exit(1)).
ExitCodeAfterCaught(stack) == IF Last(stack) = "main" THEN 0 ELSE 1

\* An exception raised in start_sock_container before the try (lines
\* 255-265) leaves that frame: uncaught in main it ends the interpreter with
\* code 1; in a fork-server child it leaves fork_server too and is caught by
\* the enclosing exec.
ExitCodeAfterRaiseInSsc(stack) ==
  IF Last(stack) = "main" THEN 1 ELSE ExitCodeAfterCaught(Front(stack))

\* ------------------------------------------------------- handle_request
\* request bodies: empty, JSON null, a falsy JSON value, a JSON object, and
\* text that is not JSON
Bodies == {"", "null", "0", "{\"a\": 1}", "not json"}

\* what handler_module.f does with its argument: it returns it, raises, or
\* returns an object json.dumps cannot encode
Handlers == {"returns", "raises", "unserializable"}

\* json.loads: the decoded Python value, or the ValueError it raises
JsonLoads(data) ==
  CASE data = "null" -> [ok |-> TRUE, value |-> "None"]
    [] data = "0" -> [ok |-> TRUE, value |-> "int 0"]
    [] data = "{\"a\": 1}" -> [ok |-> TRUE, value |-> "dict a=1"]
    [] OTHER -> [ok |-> FALSE, value |-> "ValueError"]

\* json.dumps of a Python value
JsonDumps(value) ==
  CASE value = "None" -> "null"
    [] value = "int 0" -> "0"
    [] value = "dict a=1" -> "{\"a\": 1}"
    [] value = "dict empty" -> "{}"

\* repr() of the bytes object, as the f-string of line 64 formats it
Repr(data) == "b'" \o data \o "'"

\* `if event` (truthiness) instead of `if event is not None`
HandlerArg_m(event) == IF event \in {"None", "int 0"} THEN "dict empty" ELSE event

\* line 67: f is called with the event, or with {} when the event is None
HandlerArg(event) == IF event # "None" THEN event ELSE "dict empty"

\* the state of the connection before any request
NoRequest ==
  [data |-> "", handler |-> "none", status |-> 0, body |-> <<>>,
   f_arg |-> "not called"]

\* SockFileHandler.handle_request, lines 57-71; the status is 200 unless
\* set_status is called
handle_request(data, handler) ==
  LET event == IF data # "" THEN JsonLoads(data)
               ELSE [ok |-> TRUE, value |-> "None"]
      arg == HandlerArg(event.value)
  IN IF ~event.ok
     THEN [data |-> data, handler |-> handler, status |-> 400,
           body |-> <<"Bad request data: \"", Repr(data), "\"">>,
           f_arg |-> "not called"]
     ELSE IF handler = "returns"
     THEN [data |-> data, handler |-> handler, status |-> 200,
           body |-> <<JsonDumps(arg)>>, f_arg |-> arg]
     ELSE [data |-> data, handler |-> handler, status |-> 500,
           body |-> <<"Traceback (most recent call last):",
                      IF handler = "raises" THEN "Exception"
                      ELSE "TypeError">>,
           f_arg |-> arg]

\* ----------------------------------------------------------------- Init
Init ==
  /\ args \in [env : {"sock", "docker"}, cache : BOOLEAN, bootstrap : BOOLEAN]
  /\ procs = [p \in Procs |->
               IF p = 1
               THEN [Unborn EXCEPT !.pc = "main", !.role = "main"]
               ELSE Unborn]
  /\ reqs = [k \in Reqs |-> [state |-> "new", nfds |-> 0, server |-> 0,
                             reply |-> 0, closed |-> FALSE,
                             cgroup |-> 0]]
  /\ disk = {}
  /\ http = NoRequest

\* ----------------------------------------------------------------- main
\* main(), lines 287-348.  return_code is what ol.enable_seccomp() returns.
Main(p, return_code) ==
  /\ procs[p].pc = "main"
  /\ LET me == procs[p] IN
     IF args.env = "sock"
     THEN /\ procs' =
               [procs EXCEPT ![p] =
                 IF return_code < 0
                 THEN Exit(me, 1, <<"seccomp_failed">>)
                 ELSE IF ~args.bootstrap
                 THEN Exit(me, 1, <<"seccomp", "no_bootstrap">>)
                 ELSE [me EXCEPT !.pc = "ssc", !.stack = <<"main">>,
                                 !.log = me.log \o <<"seccomp">>]]
     ELSE /\ return_code = 0
          /\ procs' =
               [procs EXCEPT ![p] =
                 [me EXCEPT !.pc = IF args.cache THEN "LISTEN"
                                   ELSE "web_server_docker",
                            !.role = IF args.cache THEN "cache" ELSE "main",
                            !.signal = "cache", !.r = -1, !.count = 0,
                            !.log = me.log \o <<"redirect">>]]
  /\ UNCHANGED <<args, reqs, disk, http>>

\* ---------------------------------------------------------- cache loop
\* the test of the fork result dropped from the condition
LoopCond_m(r, signal) == signal = "cache"

\* the while condition of line 138
LoopCond(r, signal) == r # 0 \/ signal = "cache"

\* the try around the whole for loop: the first failing import ends the
\* batch
RECURSIVE ImportLog_m(_)
ImportLog_m(mods) ==
  IF mods = <<>> THEN <<>>
  ELSE IF Head(mods) = "missing_b"
  THEN <<"importing " \o Head(mods), "failed " \o Head(mods)>>
  ELSE <<"importing " \o Head(mods)>> \o ImportLog_m(Tail(mods))

\* lines 158-163: every module is attempted in order; a failing import is
\* logged and skipped
RECURSIVE ImportLog(_)
ImportLog(mods) ==
  IF mods = <<>> THEN <<>>
  ELSE <<"importing " \o Head(mods)>>
       \o (IF Head(mods) = "missing_b"
           THEN <<"failed " \o Head(mods)>> ELSE <<>>)
       \o ImportLog(Tail(mods))

ImportedOf(mods) == {m \in Range(mods) : m # "missing_b"}

\* lines 139-152: RESET when r == 0, LISTENING, the blocking ns.fdlisten,
\* the split of the request and ns.forkenter().  The forked child returns 0
\* from forkenter, the forking process the child's pid.
CacheListen(p, mods, signal) ==
  /\ procs[p].pc = "LISTEN"
  /\ Free # {}
  /\ Cardinality(Procs \ Free) <= MaxForks
  /\ LET me == procs[p]
         q == NewPid
         pre == IF me.r = 0 THEN <<"RESET">> ELSE <<>>
         imp == IF me.r = 0 THEN {} ELSE me.imported
         mine == [me EXCEPT !.mods = mods, !.signal = signal,
                            !.imported = imp,
                            !.log = me.log \o pre \o <<"LISTENING", "read">>]
     IN procs' = [procs EXCEPT
                    ![p] = [mine EXCEPT !.ret_val = q, !.pc = "forked"],
                    ![q] = [mine EXCEPT !.ret_val = 0, !.pc = "forked",
                                        !.parent = p, !.log = <<>>]]
  /\ UNCHANGED <<args, reqs, disk, http>>

\* lines 154-171 and the loop test of line 138; on leaving the loop lines
\* 173-175 print SERVING HANDLERS and call web_server_docker
CacheIterate(p) ==
  /\ procs[p].pc = "forked"
  /\ LET me == procs[p]
         child == me.ret_val = 0
         ev == IF child
               THEN <<"redirect">> \o ImportLog(me.mods) \o <<"signal">>
               ELSE <<>>
         again == LoopCond(me.r, me.signal)
     IN procs' = [procs EXCEPT ![p] =
          [me EXCEPT
             !.imported = IF child THEN me.imported \cup ImportedOf(me.mods)
                          ELSE me.imported,
             !.count = me.count + 1,
             !.log = me.log \o ev
                     \o (IF again THEN <<>> ELSE <<"SERVING HANDLERS">>),
             !.pc = IF again THEN "LISTEN" ELSE "web_server_docker"]]
  /\ UNCHANGED <<args, reqs, disk, http>>

\* web_server_docker(), lines 107-127.  `initialized` is a module global
\* that no statement assigns before line 109 reads it: the read raises
\* NameError, which nothing catches (exit code 1).  import_ok tells whether
\* `import f` succeeds.
WebServerDocker(p, import_ok) ==
  /\ procs[p].pc = "web_server_docker"
  /\ LET me == procs[p] IN
       IF me.initialized = "undefined"
       THEN /\ procs' = [procs EXCEPT ![p] =
                  Exit(me, 1, <<"web_server_docker", "NameError">>)]
            /\ disk' = disk
       ELSE IF me.initialized = "True"
       THEN /\ procs' = [procs EXCEPT ![p] =
                  Exit(me, 0, <<"web_server_docker", "return">>)]
            /\ disk' = disk
       ELSE IF ~import_ok
       THEN /\ procs' = [procs EXCEPT ![p] =
                  Exit(me, 1, <<"web_server_docker", "ImportError">>)]
            /\ disk' = disk
       ELSE /\ procs' = [procs EXCEPT ![p] =
                  [me EXCEPT !.initialized = "True", !.pc = "serving",
                             !.file_sock = <<"sock", p>>,
                             !.fds = me.fds \cup {<<"sock", p>>},
                             !.log = me.log \o <<"web_server_docker", "bind",
                                                 "add_socket", "ready",
                                                 "ioloop">>]]
            /\ disk' = disk \cup {me.root}
  /\ UNCHANGED <<args, reqs, http>>

\* ------------------------------------------------- start_sock_container
\* line 255: the call of ol.unshare(), logged with what it returned
UnshareEvent(return_val) ==
  IF return_val = 0 THEN "unshare" ELSE "unshare_nonzero"

\* the assertion dropped
UnshareOk_m(return_val) == TRUE

\* the assertion of line 256
UnshareOk(return_val) == return_val = 0

\* start_sock_container(), lines 255-271: ol.unshare() and its assertion,
\* the bind of SOCK_PATH in the current root, the second fork.  The forking
\* process leaves with os._exit(0); the forked one goes on to the bootstrap
\* script.
StartSockContainer(p, return_val, bind_ok) ==
  /\ procs[p].pc = "ssc"
  /\ LET me == procs[p] IN
       IF ~UnshareOk(return_val)
       THEN /\ procs' = [procs EXCEPT ![p] =
                  Exit(me, ExitCodeAfterRaiseInSsc(me.stack),
                       <<UnshareEvent(return_val), "AssertionError">>)]
            /\ disk' = disk
       ELSE IF ~bind_ok
       THEN /\ procs' = [procs EXCEPT ![p] =
                  Exit(me, ExitCodeAfterRaiseInSsc(me.stack),
                       <<UnshareEvent(return_val), "bind_failed">>)]
            /\ disk' = disk
       ELSE /\ Free # {}
            /\ LET q == NewPid
                   bound == [me EXCEPT !.file_sock = <<"sock", p>>,
                                       !.fds = me.fds \cup {<<"sock", p>>}]
               IN procs' = [procs EXCEPT
                     ![p] = Exit([bound EXCEPT !.pid = q], 0,
                                 <<UnshareEvent(return_val), "bind",
                                   "fork">>),
                     ![q] = [bound EXCEPT !.pc = "bootstrap",
                                          !.role = "worker", !.parent = p,
                                          !.pid = 0, !.log = <<>>]]
            /\ disk' = disk \cup {me.root}
  /\ UNCHANGED <<args, reqs, http>>

\* what the bootstrap script does: it calls fork_server, calls web_server,
\* or raises
Scripts == {"fork_server", "web_server", "raise"}

\* lines 273-282: the script is read and executed; an exception of the
\* script is caught and logged with the script text, and the function
\* returns to its caller
Bootstrap(p, script) ==
  /\ procs[p].pc = "bootstrap"
  /\ LET me == procs[p] IN
       procs' = [procs EXCEPT ![p] =
         IF script = "raise"
         THEN Exit(me, ExitCodeAfterCaught(me.stack),
                   <<"exec", "script_raised", "logged">>)
         ELSE IF script = "fork_server"
         THEN [me EXCEPT !.pc = "accept", !.fds0 = me.fds,
                         !.log = me.log \o <<"exec", "fork_server">>]
         ELSE [me EXCEPT !.pc = "web_server",
                         !.log = me.log \o <<"exec">>]]
  /\ UNCHANGED <<args, reqs, disk, http>>

\* web_server(), lines 181-193, called by the bootstrap script
WebServer(p, import_ok) ==
  /\ procs[p].pc = "web_server"
  /\ LET me == procs[p] IN
       procs' = [procs EXCEPT ![p] =
         IF ~import_ok
         THEN Exit(me, ExitCodeAfterCaught(me.stack),
                   <<"web_server", "ImportError", "logged">>)
         ELSE [me EXCEPT !.pc = "serving",
                         !.log = me.log \o <<"web_server", "add_socket",
                                             "ioloop">>]]
  /\ UNCHANGED <<args, reqs, disk, http>>

\* lines 74-79: a serving process answers one HTTP request
HandleRequest(p, data, handler) ==
  /\ procs[p].pc = "serving"
  /\ http' = handle_request(data, handler)
  /\ UNCHANGED <<args, procs, reqs, disk>>

\* ----------------------------------------------------------- fork_server
NewReqs == {k \in Reqs : reqs[k].state = "new"}

\* the next connection a caller opens
NextReq == CHOOSE k \in NewReqs : \A j \in NewReqs : k <= j

\* the descriptors recv_fds(client, 8, 2) yields when the caller attached
\* nfds of them
Received(k, nfds) ==
  (IF nfds >= 1 THEN {<<"root_fd", k>>} ELSE {})
    \cup (IF nfds >= 2 THEN {<<"mem_cgroup_fd", k>>} ELSE {})

\* the close of mem_cgroup_fd forgotten
ParentClose_m(fdset, k) == fdset \ {<<"root_fd", k>>}

\* lines 211-212: the parent closes both received descriptors
ParentClose(fdset, k) == fdset \ {<<"root_fd", k>>, <<"mem_cgroup_fd", k>>}

\* the parent goes back to accept without waiting for the child
PcAfterFork_m == "accept"

\* line 221: after the fork the parent blocks in waitpid
PcAfterFork == "waitpid"

\* lines 203-212: accept, recv_fds, the unpacking of exactly two
\* descriptors (ValueError otherwise, caught only by the exec handler of
\* line 280), os.fork(); the parent closes both descriptors and blocks in
\* waitpid
ForkServerAccept(p, nfds) ==
  /\ procs[p].pc = "accept"
  /\ NewReqs # {}
  /\ LET me == procs[p]
         k == NextReq
         got == me.fds \cup {<<"client", k>>} \cup Received(k, nfds)
     IN IF nfds # 2
        THEN /\ procs' = [procs EXCEPT ![p] =
                   Exit([me EXCEPT !.client = k],
                        ExitCodeAfterCaught(me.stack),
                        <<"accept", "recv_fds", "ValueError", "logged">>)]
             /\ reqs' = [reqs EXCEPT ![k] =
                   [@ EXCEPT !.state = "dropped", !.nfds = nfds,
                             !.server = p, !.closed = TRUE]]
        ELSE /\ Free # {}
             /\ LET q == NewPid IN
                  procs' = [procs EXCEPT
                    ![p] = [me EXCEPT !.pc = PcAfterFork, !.pid = q,
                                      !.client = k,
                                      !.fds = ParentClose(got, k),
                                      !.log = me.log \o
                                        <<"accept", "recv_fds", "fork",
                                          "close_root_fd",
                                          "close_mem_cgroup_fd">>],
                    ![q] = [me EXCEPT !.pc = "child", !.role = "child",
                                      !.parent = p, !.pid = 0, !.client = k,
                                      !.req = k, !.fds = got, !.log = <<>>]]
             /\ reqs' = [reqs EXCEPT ![k] =
                   [@ EXCEPT !.state = "accepted", !.nfds = nfds,
                             !.server = p]]
  /\ UNCHANGED <<args, disk, http>>

\* the steps of lines 227-237, in program order
IsolateSteps ==
  <<"close_file_sock", "fchdir", "chroot", "close_root_fd", "write_pid",
    "close_mem_cgroup_fd">>

\* the steps that can raise OSError
Failures == {"fchdir", "chroot", "write_pid"}

StepIndex(step) == CHOOSE i \in 1..Len(IsolateSteps) : IsolateSteps[i] = step

\* a failing step is logged but the steps after it run all the same
StepsDone_m(fail) == IsolateSteps

\* the steps completed; a failing step is the last one attempted
StepsDone(fail) ==
  IF fail = "none" THEN IsolateSteps
  ELSE SubSeq(IsolateSteps, 1, StepIndex(fail) - 1)

\* lines 227-240, the child of the fork of line 207: it closes the
\* inherited listening socket, changes root, joins the cgroup with its own
\* pid and calls start_sock_container.  An OSError of fchdir, chroot or the
\* write leaves fork_server and is caught by the exec handler of line 280.
ChildIsolate(p, fail) ==
  /\ procs[p].pc = "child"
  /\ LET me == procs[p]
         k == me.req
         done == Range(StepsDone(fail))
         open == (me.fds \ {me.file_sock})
                   \ ((IF "close_root_fd" \in done
                       THEN {<<"root_fd", k>>} ELSE {})
                      \cup (IF "close_mem_cgroup_fd" \in done
                            THEN {<<"mem_cgroup_fd", k>>} ELSE {}))
         now == [me EXCEPT !.file_sock = <<"none", 0>>, !.fds = open,
                           !.root = IF "chroot" \in done THEN k ELSE me.root]
     IN /\ procs' = [procs EXCEPT ![p] =
              IF fail # "none"
              THEN Exit(now, ExitCodeAfterCaught(me.stack),
                        StepsDone(fail) \o <<fail \o "_failed", "logged">>)
              ELSE [now EXCEPT !.pc = "ssc",
                               !.stack = Append(me.stack, "fs"),
                               !.log = me.log \o IsolateSteps]]
        /\ reqs' = [reqs EXCEPT ![k] =
              [@ EXCEPT !.cgroup = IF "write_pid" \in done THEN p ELSE @]]
  /\ UNCHANGED <<args, disk, http>>

\* the parent's own pid sent instead of the forked child's
ReplyValue_m(P, p) == Pack(p)

\* line 222: the payload of the reply
ReplyValue(P, p) == Pack(P[p].pid)

\* the parent raises when the child it waited on ended before the second
\* fork
ForkServerReply_m(p) ==
  /\ procs[p].pc = "waitpid"
  /\ procs[procs[p].pid].pc = "exited"
  /\ LET me == procs[p]
         k == me.client
         failed == "fork" \notin Range(procs[me.pid].log)
     IN /\ procs' = [procs EXCEPT ![p] =
              IF failed
              THEN Exit(me, ExitCodeAfterCaught(me.stack),
                        <<"waitpid", "ChildProcessError", "logged">>)
              ELSE [me EXCEPT !.pc = "accept",
                              !.fds = me.fds \ {<<"client", k>>},
                              !.log = me.log \o
                                <<"waitpid", "sendall", "close_client">>]]
        /\ reqs' = [reqs EXCEPT ![k] =
              IF failed THEN [@ EXCEPT !.state = "dropped", !.closed = TRUE]
              ELSE [@ EXCEPT !.state = "replied",
                             !.reply = ReplyValue(procs, p),
                             !.closed = TRUE]]
  /\ UNCHANGED <<args, disk, http>>

\* lines 221-223: waitpid returns once the child of line 207 has ended;
\* the parent sends the packed pid, closes the connection and accepts again
ForkServerReply(p) ==
  /\ procs[p].pc = "waitpid"
  /\ procs[procs[p].pid].pc = "exited"
  /\ LET me == procs[p]
         k == me.client
     IN /\ procs' = [procs EXCEPT ![p] =
              [me EXCEPT !.pc = "accept",
                         !.fds = me.fds \ {<<"client", k>>},
                         !.log = me.log \o
                           <<"waitpid", "sendall", "close_client">>]]
        /\ reqs' = [reqs EXCEPT ![k] =
              [@ EXCEPT !.state = "replied", !.reply = ReplyValue(procs, p),
                        !.closed = TRUE]]
  /\ UNCHANGED <<args, disk, http>>

\* --------------------------------------------------------- specification
Next ==
  \E p \in Procs :
    \/ \E return_code \in {-1, 0} : Main(p, return_code)
    \/ \E mods \in SeqsUpTo(ModNames, MaxMods), signal \in Signals :
         CacheListen(p, mods, signal)
    \/ CacheIterate(p)
    \/ \E import_ok \in BOOLEAN : WebServerDocker(p, import_ok)
    \/ \E return_val \in {-1, 0}, bind_ok \in BOOLEAN :
         StartSockContainer(p, return_val, bind_ok)
    \/ \E script \in Scripts : Bootstrap(p, script)
    \/ \E import_ok \in BOOLEAN : WebServer(p, import_ok)
    \/ \E nfds \in 0..2 : ForkServerAccept(p, nfds)
    \/ \E fail \in Failures \cup {"none"} : ChildIsolate(p, fail)
    \/ ForkServerReply(p)
    \/ \E data \in Bodies, handler \in Handlers :
         HandleRequest(p, data, handler)

Spec == Init /\ [][Next]_vars

\* ------------------------------------------------------------ properties
Events(p) == Range(procs[p].log)

CacheProcs == {p \in Procs : procs[p].role = "cache"}

\* the processes that left the while loop of cache_loop
Served == {p \in CacheProcs : "SERVING HANDLERS" \in Events(p)}

\* the process forked at line 207 for request k
ChildOf(k) == {c \in Procs : procs[c].role = "child" /\ procs[c].req = k}

\* the process forked at line 264 by the child of request k
GrandchildOf(k) == {g \in Procs : procs[g].role = "worker" /\ procs[g].req = k}

Replied(k) == reqs[k].state = "replied"

\* C1: once a CacheRequest whose signal is not 'cache' has been consumed and
\* every process of the tree has finished that iteration, exactly one
\* process has left the loop to serve.
C1_ExactlyOneServing ==
  ((\E p \in CacheProcs : procs[p].signal # "cache")
     /\ (\A p \in CacheProcs : procs[p].pc # "forked"))
  => Cardinality(Served) = 1

\* C2: a request has its reply only if that request's child has bound the
\* socket at SOCK_PATH.
C2_ReplyAfterBind ==
  \A k \in Reqs :
    Replied(k) => \E c \in ChildOf(k) : "bind" \in Events(c)

C4_ServeDispatch ==
  \A p \in CacheProcs :
    (procs[p].ret_val = 0 /\ procs[p].signal # "cache"
       /\ procs[p].pc # "forked")
    => (procs[p].pc # "LISTEN" /\ p \in Served)

\* C5: a connection that delivers a number of descriptors other than two
\* leaves the fork server in its accept loop.
C5_MalformedKeepsServing ==
  \A k \in Reqs :
    (reqs[k].server # 0 /\ reqs[k].nfds # 2)
    => procs[reqs[k].server].pc \in {"accept", "waitpid"}

\* C6: whenever the fork server is back at accept, it holds the descriptors
\* it held when it entered fork_server, and none of the descriptors or
\* connections of the requests it handled.
C6_ParentFdsRestored ==
  \A p \in Procs :
    procs[p].pc = "accept" =>
      /\ procs[p].fds = procs[p].fds0
      /\ \A k \in Reqs :
           reqs[k].server = p =>
             procs[p].fds \cap {<<"root_fd", k>>, <<"mem_cgroup_fd", k>>,
                                <<"client", k>>} = {}

\* C6 witness: a fork server is back at accept after answering a request.
C6_Witness ==
  \E p \in Procs, k \in Reqs :
    procs[p].pc = "accept" /\ reqs[k].server = p /\ Replied(k)

\* C7: a process whose bootstrap script raised has logged it and has ended
\* with a non-zero exit code.
C7_BootstrapFailureNonZero ==
  \A p \in Procs :
    "script_raised" \in Events(p) =>
      /\ "logged" \in Events(p)
      /\ procs[p].pc = "exited"
      /\ procs[p].exit # 0

\* C8: a process in which ol.unshare() returned non-zero has ended without
\* binding SOCK_PATH, without the second fork and without executing the
\* bootstrap script.
C8_UnshareFailureFatal ==
  \A p \in Procs :
    "unshare_nonzero" \in Events(p) =>
      /\ procs[p].pc = "exited"
      /\ Events(p) \cap {"bind", "fork", "exec"} = {}
      /\ \A q \in Procs : ~(procs[q].role = "worker" /\ procs[q].parent = p)
      /\ procs[p].file_sock # <<"sock", p>>

\* C8 witness: unshare returned non-zero in a fork-server child.
C8_Witness ==
  \E p \in Procs :
    procs[p].role = "child" /\ "unshare_nonzero" \in Events(p)

\* C10: a docker-mode process that called web_server_docker and has ended
\* has written 'ready' (a process that delivers readiness never ends
\* without having written it).
C10_ReadyDelivered ==
  \A p \in Procs :
    (args.env = "docker" /\ "web_server_docker" \in Events(p)
       /\ procs[p].pc = "exited")
    => ("bind" \in Events(p) /\ "ready" \in Events(p))

\* the cache_loop processes that have finished the iteration in which their
\* fork returned 0
DoneChildren ==
  {p \in CacheProcs : procs[p].ret_val = 0 /\ procs[p].pc # "forked"}

ImportingEvents == {"importing " \o m : m \in ModNames}

FailedEvents == {"failed " \o m : m \in ModNames}

IsImporting(e) == e \in ImportingEvents

IsFailed(e) == e \in FailedEvents

\* C11: a child that finished its iteration attempted every module of the
\* list, in list order, logged a failure for exactly the modules whose
\* import raised, recorded every module whose import succeeded, printed the
\* signal after the last attempt and went on to the loop test (it is at
\* LISTEN or on its way to serve; it has not ended).
C11_ImportTolerance ==
  \A p \in DoneChildren :
    LET log == procs[p].log
        mods == procs[p].mods
    IN /\ SelectSeq(log, IsImporting)
            = [i \in 1..Len(mods) |-> "importing " \o mods[i]]
       /\ SelectSeq(log, IsFailed)
            = SelectSeq([i \in 1..Len(mods) |-> "failed " \o mods[i]],
                        LAMBDA e : e = "failed missing_b")
       /\ \A i \in 1..Len(mods) :
            mods[i] # "missing_b" => mods[i] \in procs[p].imported
       /\ \E j \in 1..Len(log) :
            /\ log[j] = "signal"
            /\ \A i \in 1..Len(log) :
                 (IsImporting(log[i]) \/ IsFailed(log[i])) => i < j
       /\ procs[p].pc \in {"LISTEN", "web_server_docker"}

\* C11 witness: a child went through a list in which an import that raises
\* is followed by one that succeeds, and is back at the loop.
C11_Witness ==
  \E p \in DoneChildren :
    /\ procs[p].mods = <<"missing_b", "good_a">>
    /\ "signal" \in Events(p)
    /\ procs[p].pc = "LISTEN"

\* the bodies that are JSON texts
ValidJson == {"null", "0", "{\"a\": 1}"}

\* C12: every answered request has exactly one of three outcomes: 400 with
\* the body included and f not called, for a non-empty body that is not
\* JSON; 500 with a non-empty diagnostic when f or the serialization of its
\* result raises; otherwise 200 with the JSON-encoded result, f having been
\* called with {} for an empty or null body and with the decoded value
\* otherwise.
C12_RequestOutcomes ==
  http.handler # "none" =>
    LET bad == http.data # "" /\ http.data \notin ValidJson
        fails == ~bad /\ http.handler \in {"raises", "unserializable"}
        expected == IF http.data \in {"", "null"} THEN "dict empty"
                    ELSE JsonLoads(http.data).value
    IN /\ http.status \in {200, 400, 500}
       /\ http.status = 400 <=> bad
       /\ http.status = 500 <=> fails
       /\ bad => /\ Repr(http.data) \in Range(http.body)
                 /\ http.f_arg = "not called"
       /\ fails => /\ http.body # <<>>
                   /\ \A i \in 1..Len(http.body) : http.body[i] # ""
       /\ ~bad => http.f_arg = expected
       /\ http.status = 200 => http.body = <<JsonDumps(expected)>>

\* C12 witness: a falsy JSON value was passed to f as it is and answered
\* with 200.
C12_Witness ==
  http.data = "0" /\ http.status = 200 /\ http.f_arg = "int 0"

Listeners == {p \in CacheProcs : procs[p].pc = "LISTEN"}

\* C13: at most one process of the cache-loop tree is at the LISTEN step.
C13_OneListener == Cardinality(Listeners) <= 1

\* the steps that make the child of a request end before the second fork
ChildFailures ==
  {"fchdir_failed", "chroot_failed", "write_pid_failed", "unshare_nonzero",
   "bind_failed"}

FailedChild(k) == \E c \in ChildOf(k) : Events(c) \cap ChildFailures # {}

\* C14: a request whose child has ended is answered and closed and its
\* fork server goes back to accept: a fork server that has answered or is
\* handling a request is alive, unless a later connection with a wrong
\* descriptor count ended it (C5); a fork server never ends while it waits
\* for a child.
C14_SurvivesChildFailure ==
  /\ \A k \in Reqs :
       Replied(k) =>
         /\ reqs[k].closed
         /\ <<"client", k>> \notin procs[reqs[k].server].fds
         /\ \/ procs[reqs[k].server].pc \in {"accept", "waitpid"}
            \/ \E j \in Reqs : /\ j > k
                               /\ reqs[j].server = reqs[k].server
                               /\ reqs[j].nfds # 2
  /\ \A k \in Reqs :
       (reqs[k].state = "accepted" /\ reqs[k].nfds = 2)
       => /\ procs[reqs[k].server].pc = "waitpid"
          /\ procs[reqs[k].server].client = k
  /\ \A k \in Reqs :
       (reqs[k].server # 0 /\ reqs[k].nfds = 2 /\ FailedChild(k))
       => reqs[k].state \in {"accepted", "replied"}

\* C14 witness: the child of a request failed, the request was answered
\* all the same, and the same fork server answered a later request whose
\* child bound its socket.
C14_Witness ==
  \E k \in Reqs, j \in Reqs :
    /\ k < j
    /\ reqs[k].server = reqs[j].server
    /\ Replied(k) /\ FailedChild(k)
    /\ Replied(j)
    /\ \E c \in ChildOf(j) : "bind" \in Events(c)

\* C15: a process is out of the loop only if its last fork returned 0 and
\* the signal it consumed is not 'cache'; a process whose fork returned
\* non-zero does nothing between the read and the loop test (no redirect,
\* no import) and is back at LISTEN; a child that consumed 'cache' is back
\* at LISTEN and has not served.
C15_RoleSafety ==
  \A p \in CacheProcs :
    /\ (procs[p].pc \in {"web_server_docker", "serving", "exited"}
          \/ p \in Served)
       => (procs[p].ret_val = 0 /\ procs[p].signal # "cache")
    /\ (procs[p].ret_val > 0 /\ procs[p].pc # "forked")
       => /\ procs[p].pc = "LISTEN"
          /\ Last(procs[p].log) = "read"
    /\ (procs[p].ret_val = 0 /\ procs[p].signal = "cache"
          /\ procs[p].pc # "forked")
       => /\ procs[p].pc = "LISTEN"
          /\ p \notin Served

\* C15 witness: after a fork for a 'cache' request the forking process and
\* its child have both finished the iteration.
C15_Witness ==
  \E p \in CacheProcs, q \in CacheProcs :
    /\ procs[p].ret_val = q /\ procs[p].pc = "LISTEN"
    /\ procs[q].ret_val = 0 /\ procs[q].signal = "cache"
    /\ procs[q].pc = "LISTEN" /\ "redirect" \in Events(q)

\* the processes that went through lines 255-264 of start_sock_container
Intermediates ==
  {p \in Procs : Events(p) \cap {"unshare", "unshare_nonzero"} # {}}

\* C16: the intermediate process ends with code 0 only after the bind and
\* the second fork, and never executes the bootstrap script; only a process
\* forked at line 264 executes it, and nobody waits on such a process.
C16_DoubleFork ==
  /\ \A p \in Intermediates :
       /\ (procs[p].pc = "exited" /\ procs[p].exit = 0)
          => /\ "bind" \in Events(p)
             /\ "fork" \in Events(p)
             /\ \E g \in Procs :
                  procs[g].role = "worker" /\ procs[g].parent = p
       /\ "exec" \notin Events(p)
  /\ \A p \in Procs : "exec" \in Events(p) => procs[p].role = "worker"
  /\ \A p \in Procs :
       procs[p].pc = "waitpid" => procs[procs[p].pid].role # "worker"

\* the nine steps of the fork-server child, in the order of lines 227-264
FullSteps ==
  <<"close_file_sock", "fchdir", "chroot", "close_root_fd", "write_pid",
    "close_mem_cgroup_fd", "unshare", "bind", "fork">>

IsStep(e) == e \in Range(FullSteps)

\* the log entry of a failure of step i
FailureOf(i) ==
  CASE i = 2 -> "fchdir_failed"
    [] i = 3 -> "chroot_failed"
    [] i = 5 -> "write_pid_failed"
    [] i = 7 -> "unshare_nonzero"
    [] i = 8 -> "bind_failed"
    [] OTHER -> "never"

\* C17: the child of a request performs the nine steps in order, each at
\* most once; a failing step is the last one and ends the process without
\* a grandchild; the pid written to the cgroup is the child's own; and the
\* grandchild that executes the bootstrap script comes from a child that
\* did all nine steps, so it is chrooted into the request's root and its
\* parent joined the cgroup.
C17_IsolationOrder ==
  /\ \A c \in Procs :
       procs[c].role = "child" =>
         LET done == SelectSeq(procs[c].log, IsStep)
             k == procs[c].req
         IN /\ Len(done) <= Len(FullSteps)
            /\ done = SubSeq(FullSteps, 1, Len(done))
            /\ \A i \in 1..Len(FullSteps) :
                 FailureOf(i) \in Events(c) =>
                   /\ Len(done) = i - 1
                   /\ procs[c].pc = "exited"
                   /\ \A g \in Procs : procs[g].parent # c
            /\ "write_pid" \in Events(c) => reqs[k].cgroup = c
            /\ "write_pid" \notin Events(c) => reqs[k].cgroup = 0
  /\ \A g \in Procs :
       (procs[g].role = "worker" /\ procs[g].req # 0
          /\ "exec" \in Events(g))
       => /\ SelectSeq(procs[procs[g].parent].log, IsStep) = FullSteps
          /\ procs[g].root = procs[g].req
          /\ reqs[procs[g].req].cgroup = procs[g].parent

\* C17 witness: one child was stopped by a failing chroot and another went
\* through all nine steps and its grandchild executed the script.
C17_Witness ==
  /\ \E c \in Procs :
       procs[c].role = "child" /\ "chroot_failed" \in Events(c)
  /\ \E g \in Procs :
       procs[g].role = "worker" /\ procs[g].req # 0 /\ "exec" \in Events(g)

\* the steps of the parent for one well-formed connection, lines 203-223
Cycle ==
  <<"accept", "recv_fds", "fork", "close_root_fd", "close_mem_cgroup_fd",
    "waitpid", "sendall", "close_client">>

Cyclic(seq) ==
  \A i \in 1..Len(seq) : seq[i] = Cycle[((i - 1) % Len(Cycle)) + 1]

Servers == {p \in Procs : "fork_server" \in Events(p)}

\* what the process logged after it entered fork_server
ServerLog(p) == SubSeq(procs[p].log, 3, Len(procs[p].log))

\* C18: the steps of a fork server are whole cycles accept, recv_fds, fork,
\* the two closes, waitpid, reply, close, one after the other; it is at
\* accept only when no request of its own is unfinished, and at waitpid
\* with exactly the fork and the two closes of the current request done;
\* a request has at most one child, and the child never accepts and no
\* longer holds the listening socket once it has closed it.
C18_Serialized ==
  /\ \A p \in Servers :
       LET rest == ServerLog(p)
           n == Len(rest)
       IN /\ IF "ValueError" \in Range(rest)
             THEN /\ n >= 4
                  /\ SubSeq(rest, n - 3, n)
                       = <<"accept", "recv_fds", "ValueError", "logged">>
                  /\ Cyclic(SubSeq(rest, 1, n - 4))
                  /\ (n - 4) % Len(Cycle) = 0
             ELSE /\ Cyclic(rest)
                  /\ procs[p].pc \in {"accept", "waitpid"}
                  /\ procs[p].pc = "accept" => n % Len(Cycle) = 0
                  /\ procs[p].pc = "waitpid" => n % Len(Cycle) = 5
          /\ procs[p].pc = "accept" =>
               \A k \in Reqs :
                 reqs[k].server = p => reqs[k].state # "accepted"
          /\ Cardinality({k \in Reqs : reqs[k].server = p /\ Replied(k)})
               = Cardinality({i \in 1..n : rest[i] = "sendall"})
  /\ \A k \in Reqs : Cardinality(ChildOf(k)) <= 1
  /\ \A c \in Procs :
       procs[c].role = "child" =>
         /\ "accept" \notin Events(c)
         /\ "close_file_sock" \in Events(c) =>
              procs[procs[c].parent].file_sock \notin procs[c].fds

\* C18 witness: one fork server has answered two requests.
C18_Witness ==
  \E p \in Servers :
    Cardinality({k \in Reqs : reqs[k].server = p /\ Replied(k)}) >= 2

\* C19: a process that is about to start an iteration after a fork that
\* returned 0 resets first: the test of line 139 (r == 0) holds for it, and
\* in its log LISTENING never follows the end of a child iteration without
\* RESET in between; RESET is logged nowhere else.
C19_Reset ==
  \A p \in CacheProcs :
    /\ (procs[p].pc = "LISTEN" /\ procs[p].ret_val = 0) => procs[p].r = 0
    /\ \A i \in 2..Len(procs[p].log) :
         procs[p].log[i] = "LISTENING" => procs[p].log[i - 1] # "signal"
    /\ \A i \in 1..Len(procs[p].log) :
         procs[p].log[i] = "RESET" =>
           (i > 1 /\ procs[p].log[i - 1] = "signal")

\* C20: a grandchild of a fork-server request that is about to execute the
\* bootstrap script holds the newly bound socket and nothing else: not the
\* fork server's listening socket, root_fd, mem_cgroup_fd or the client
\* connection.
C20_WorkerFds ==
  \A g \in Procs :
    (procs[g].role = "worker" /\ procs[g].req # 0
       /\ procs[g].pc = "bootstrap")
    => /\ procs[g].file_sock = <<"sock", procs[g].parent>>
       /\ procs[g].fds = {procs[g].file_sock}

====
